---- MODULE Spec2Model ----
(***************************************************************************)
(* Model of the invoice dashboard's server actions (createInvoice,         *)
(* updateInvoice, deleteInvoice, authenticate) and of the debounced        *)
(* search field.                                                           *)
(*                                                                         *)
(* A server action is modelled step by step: Call, Validate, the awaited   *)
(* SQL statement (which succeeds or throws), revalidatePath, redirect.     *)
(* `effects` records what the running invocation did, in order.            *)
(***************************************************************************)
EXTENDS Integers, Sequences, FiniteSets, TLC

VARIABLES
    invoices,      \* the invoices table: a set of rows
    nextId,        \* the identifier storage gives to the next inserted row
    today,         \* the UTC calendar date (a day number)
    calls,         \* number of server-action invocations so far
    pc,            \* position of the running invocation
    op,            \* which server action is running
    routeId,       \* the id argument of updateInvoice / deleteInvoice
    formData,      \* the submitted form
    locals,        \* customerId, amountInCents, status, date of the invocation
    result,        \* how the invocation ended
    effects,       \* what the invocation did so far, in order
    searchParams,  \* query parameters of the current location (ordered pairs)
    history,       \* the browser's history entries (URLs), current one last
    pending,       \* the debounce timer is armed
    lastArgs,      \* the term of the latest call of the debounced handler
    sinceLast,     \* ms since the latest call of the debounced handler (capped)
    now,           \* ms since the page was loaded
    inputLog,      \* input events so far: [term, at]
    navLog         \* router.replace calls so far: [url, at]

mutationVars == <<invoices, nextId, today, calls, pc, op, routeId, formData, locals, result, effects>>
searchVars == <<searchParams, history, pending, lastArgs, sinceLast, now, inputLog, navLog>>
vars == <<invoices, nextId, today, calls, pc, op, routeId, formData, locals, result, effects,
          searchParams, history, pending, lastArgs, sinceLast, now, inputLog, navLog>>

----------------------------------------------------------------------------
(* Bounds of the model *)

MaxCalls == 2
MaxDay == 2

----------------------------------------------------------------------------
(* Form values.  FormData.get(name) is null when the field is absent and a *)
(* string otherwise.  customerId and status are only compared, so they are *)
(* TLA+ strings; amount is parsed, so it is a sequence of characters.      *)

Null == [isNull |-> TRUE]
Str(v) == [isNull |-> FALSE, val |-> v]

Digits == <<"0", "1", "2", "3", "4", "5", "6", "7", "8", "9">>

IsDigit(c) == \E i \in 1..10 : Digits[i] = c

DigitVal(c) == (CHOOSE i \in 1..10 : Digits[i] = c) - 1

IsWhiteSpace(c) == c = " "

RECURSIVE TrimStart(_)
TrimStart(s) ==
    IF s # <<>> /\ IsWhiteSpace(Head(s)) THEN TrimStart(Tail(s)) ELSE s

RECURSIVE TrimEnd(_)
TrimEnd(s) ==
    IF s # <<>> /\ IsWhiteSpace(s[Len(s)])
    THEN TrimEnd(SubSeq(s, 1, Len(s) - 1))
    ELSE s

RECURSIVE DigitsValue(_)
DigitsValue(s) ==
    IF s = <<>> THEN 0
    ELSE 10 * DigitsValue(SubSeq(s, 1, Len(s) - 1)) + DigitVal(s[Len(s)])

NaN == [nan |-> TRUE, neg |-> FALSE, mant |-> 0, scale |-> 0]
Num(neg, mant, scale) == [nan |-> FALSE, neg |-> neg, mant |-> mant, scale |-> scale]

(* An unsigned decimal literal: digits, at most one ".", at least one digit. *)
UnsignedDecimal(neg, s) ==
    LET dots == {i \in 1..Len(s) : s[i] = "."}
        digs == SelectSeq(s, IsDigit)
    IN  IF /\ \A i \in 1..Len(s) : IsDigit(s[i]) \/ s[i] = "."
           /\ Cardinality(dots) <= 1
           /\ digs # <<>>
        THEN Num(neg, DigitsValue(digs),
                 IF dots = {} THEN 0 ELSE Len(s) - (CHOOSE i \in dots : TRUE))
        ELSE NaN

(* Number(value) of JavaScript, which z.coerce.number() applies to the raw *)
(* input: null and the blank string give 0, a decimal literal its value,   *)
(* anything else NaN.  (Over the characters of RawChars.)                  *)
ToNumber(raw) ==
    IF raw.isNull THEN Num(FALSE, 0, 0)
    ELSE LET t == TrimEnd(TrimStart(raw.val))
         IN  IF t = <<>> THEN Num(FALSE, 0, 0)
             ELSE IF Head(t) = "-" THEN UnsignedDecimal(TRUE, Tail(t))
             ELSE IF Head(t) = "+" THEN UnsignedDecimal(FALSE, Tail(t))
             ELSE UnsignedDecimal(FALSE, t)

(* x > 0 for a parsed number *)
GreaterThanZero(x) == ~x.nan /\ ~x.neg /\ x.mant > 0

----------------------------------------------------------------------------
(* amount * 100 in IEEE-754 double arithmetic.                             *)
(* A number is kept as the exact decimal the form gave (mant / 10^scale);  *)
(* the product is kept as the integer number of cents it is meant to be    *)
(* and the sign of the difference between the double product and it.      *)

RECURSIVE Pow(_, _)
Pow(b, e) == IF e = 0 THEN 1 ELSE b * Pow(b, e - 1)

RECURSIVE PowMod(_, _, _)
PowMod(b, e, m) == IF e = 0 THEN 1 % m ELSE (b * PowMod(b, e - 1, m)) % m

(* the largest e with 2^e <= num / den, for num, den > 0 *)
RECURSIVE FloorLog2Up(_, _, _)
FloorLog2Up(num, den, e) ==
    IF den * Pow(2, e + 1) <= num THEN FloorLog2Up(num, den, e + 1) ELSE e

RECURSIVE FloorLog2Down(_, _, _)
FloorLog2Down(num, den, e) ==
    IF num * Pow(2, 0 - e) < den THEN FloorLog2Down(num, den, e - 1) ELSE e

FloorLog2(num, den) ==
    IF num >= den THEN FloorLog2Up(num, den, 0) ELSE FloorLog2Down(num, den, 0)

(* Sign of double(n / 100) * 100 - n, for an integer n > 0.                *)
(* double(n/100) = M * 2^-k with M the nearest integer to n * 2^k / 100    *)
(* and k = 52 - floor(log2(n/100)); 100 * M - n * 2^k = d, |d| < 50, so    *)
(* the exact product is n + d * 2^-k, which rounds to n iff |d| is at most *)
(* half the spacing of doubles at n, 2^(floor(log2 n) - 53 + k).           *)
ProductError(n) ==
    LET e == FloorLog2(n, 100)
        en == FloorLog2(n, 1)
        k == 52 - e
        r == ((n % 100) * PowMod(2, k, 100)) % 100
        d == IF r < 50 THEN 0 - r ELSE 100 - r
        half == Pow(2, en - e - 1)
        halfBelow == IF n = Pow(2, en) THEN half \div 2 ELSE half
    IN  IF d > 0 THEN (IF d <= half THEN 0 ELSE 1)
        ELSE IF d < 0 THEN (IF 0 - d <= halfBelow THEN 0 ELSE 0 - 1)
        ELSE 0

(* amount * 100 (lines 64 and 110), for amount > 0 *)
TimesHundred(x) ==
    LET p == Pow(10, x.scale)
        n == (x.mant * 100) \div p
    IN  IF (x.mant * 100) % p # 0
        THEN [cents |-> n, err |-> 1]      \* not a whole number of cents
        ELSE [cents |-> n, err |-> ProductError(n)]

----------------------------------------------------------------------------
(* FormSchema and the schemas derived from it *)

StatusEnum == {"pending", "paid"}

CustomerIdIssues(raw) ==
    IF raw.isNull THEN <<"Please select a customer">> ELSE <<>>

AmountIssues(raw) ==
    LET x == ToNumber(raw)
    IN  IF x.nan THEN <<"Expected number, received nan">>
        ELSE IF ~GreaterThanZero(x) THEN <<"Please enter an amount greater than $0">>
        ELSE <<>>

StatusIssues(raw) ==
    IF raw.isNull THEN <<"Please select an invoice status">>
    ELSE IF raw.val \notin StatusEnum
         THEN <<"Invalid enum value. Expected 'pending' | 'paid'">>
    ELSE <<>>

SchemaFields == {"customerId", "amount", "status"}

(* the issues of every field of FormSchema.omit({id, date}) *)
FieldIssues(input) ==
    [f \in SchemaFields |->
        IF f = "customerId" THEN CustomerIdIssues(input.customerId)
        ELSE IF f = "amount" THEN AmountIssues(input.amount)
        ELSE StatusIssues(input.status)]

(* a parse that stops at the first field that has issues *)
SafeParse_FirstIssueOnly(input) ==
    LET issues == FieldIssues(input)
        bad == {f \in SchemaFields : issues[f] # <<>>}
        first == IF "customerId" \in bad THEN {"customerId"}
                 ELSE IF "amount" \in bad THEN {"amount"} ELSE bad
    IN  IF bad = {}
        THEN [success |-> TRUE,
              data |-> [customerId |-> input.customerId.val,
                        amount |-> ToNumber(input.amount),
                        status |-> input.status.val]]
        ELSE [success |-> FALSE,
              fieldErrors |-> [f \in first |-> issues[f]]]

(* schema.safeParse(input), with error.flatten().fieldErrors on failure:   *)
(* fieldErrors has a key for each field that has issues, and no other.     *)
SafeParse(input) ==
    LET issues == FieldIssues(input)
        bad == {f \in SchemaFields : issues[f] # <<>>}
    IN  IF bad = {}
        THEN [success |-> TRUE,
              data |-> [customerId |-> input.customerId.val,
                        amount |-> ToNumber(input.amount),
                        status |-> input.status.val]]
        ELSE [success |-> FALSE,
              fieldErrors |-> [f \in bad |-> issues[f]]]

CreateInvoice(input) == SafeParse(input)

UpdateInvoice(input) == SafeParse(input)

(* the object built from formData.get(...) at lines 39-43 and 95-99 *)
ParsedInput(fd) ==
    [customerId |-> fd.customerId, amount |-> fd.amount, status |-> fd.status]

----------------------------------------------------------------------------
(* The submissions the model draws from *)

FormCustomerIds == {Null, Str(""), Str("cust-1")}

FormAmounts ==
    {Null, Str(<<"0">>), Str(<<"-", "5">>), Str(<<"a">>),
     Str(<<"1", ".", "1", "5">>), Str(<<"1", "2", ".", "3", "4">>)}

FormStatuses == {Null, Str("draft"), Str("pending"), Str("paid")}

Forms == [customerId : FormCustomerIds, amount : FormAmounts, status : FormStatuses]

Credentials == {[email |-> Str("user@nextmail.com"), password |-> Str("123456")]}

(* what signIn('credentials', formData) can do: return, throw an AuthError *)
(* of some type, or throw something that is no AuthError                   *)
SignInOutcomes ==
    {[threw |-> FALSE, isAuthError |-> FALSE, type |-> ""],
     [threw |-> TRUE, isAuthError |-> TRUE, type |-> "CredentialsSignin"],
     [threw |-> TRUE, isAuthError |-> TRUE, type |-> "CallbackRouteError"],
     [threw |-> TRUE, isAuthError |-> FALSE, type |-> "NEXT_REDIRECT"]}

NoForm == [none |-> TRUE]
NoLocals == [none |-> TRUE]
NoResult == [kind |-> "none"]
NoId == 0

----------------------------------------------------------------------------
(* The SQL statements *)

InsertInvoice(rows, id, customerId, amountInCents, status, date) ==
    rows \cup {[id |-> id, customer_id |-> customerId, amount |-> amountInCents,
                status |-> status, date |-> date]}

(* an UPDATE without its WHERE clause *)
UpdateInvoiceRow_NoWhere(rows, id, customerId, amountInCents, status) ==
    {[r EXCEPT !.customer_id = customerId, !.amount = amountInCents,
               !.status = status] : r \in rows}

UpdateInvoiceRow(rows, id, customerId, amountInCents, status) ==
    {IF r.id = id
     THEN [r EXCEPT !.customer_id = customerId, !.amount = amountInCents,
                    !.status = status]
     ELSE r : r \in rows}

DeleteInvoiceRow(rows, id) == {r \in rows : r.id # id}

----------------------------------------------------------------------------
(* Literals of the server actions *)

InvoicesPath == "/dashboard/invoices"

CreateMissingFieldsMessage == "Missing fields. Failed to create invoice."

(* updateInvoice's validation message without the words about the amount *)
UpdateMissingFieldsMessage_NoAmountWords ==
    "Missing fields. Failed to update invoice."

UpdateMissingFieldsMessage ==
    "Missing fields or invalid amount. Failed to update invoice."

CreateDatabaseErrorMessage == "Database error: Failed to create invoice."

UpdateDatabaseErrorMessage_OwnText == "Database error: Failed to update invoice."

UpdateDatabaseErrorMessage == "Database error: Failed to create invoice."

DeleteDatabaseErrorMessage == "Database error: Failed to delete invoice!"

CreateRevalidatePath == "/dashboard/invoices"

UpdateRevalidatePath == "/dashboard/invoices"

DeleteRevalidatePath == "/dashbaord/invoices"

CreateRedirectPath == "/dashboard/invoices"

UpdateRedirectPath == "/dashboard/invoices"

Sql(stmt, ok) == [kind |-> "sql", arg |-> stmt, ok |-> ok]
RevalidatePath(path) == [kind |-> "revalidatePath", arg |-> path]
Redirect(path) == [kind |-> "redirect", arg |-> path]
ConsoleError == [kind |-> "console.error", arg |-> "error.message"]
SignIn(provider) == [kind |-> "signIn", arg |-> provider]

----------------------------------------------------------------------------
(* The initial state: a seeded invoices table, nothing running *)

SeedInvoices ==
    {[id |-> 1, customer_id |-> "cust-1", amount |-> [cents |-> 1000, err |-> 0],
      status |-> "pending", date |-> 1]}

InitMutation ==
    /\ invoices = SeedInvoices
    /\ nextId = 2
    /\ today = 1
    /\ calls = 0
    /\ pc = "idle"
    /\ op = "none"
    /\ routeId = NoId
    /\ formData = NoForm
    /\ locals = NoLocals
    /\ result = NoResult
    /\ effects = <<>>

CanCall == pc \in {"idle", "done"} /\ calls < MaxCalls

(* a request arrives: the framework invokes a server action *)
Call(o, id, fd, next) ==
    /\ CanCall
    /\ calls' = calls + 1
    /\ op' = o
    /\ routeId' = id
    /\ formData' = fd
    /\ locals' = NoLocals
    /\ result' = NoResult
    /\ effects' = <<>>
    /\ pc' = next
    /\ UNCHANGED <<invoices, nextId, today>>
    /\ UNCHANGED searchVars

(* the calendar date advances *)
Tick ==
    /\ today < MaxDay
    /\ today' = today + 1
    /\ UNCHANGED <<invoices, nextId, calls, pc, op, routeId, formData, locals,
                   result, effects>>
    /\ UNCHANGED searchVars

----------------------------------------------------------------------------
(* createInvoice *)

CallCreateInvoice ==
    \E fd \in Forms : Call("createInvoice", NoId, fd, "validate")

(* the date is taken from the form when the form has one *)
CreateValidate_DateFromForm ==
    /\ pc = "validate" /\ op = "createInvoice"
    /\ \E validatedFields \in {CreateInvoice(ParsedInput(formData))} :
           IF ~validatedFields.success
           THEN /\ result' = [kind |-> "return",
                              value |-> [errors |-> validatedFields.fieldErrors,
                                         message |-> CreateMissingFieldsMessage]]
                /\ pc' = "done"
                /\ UNCHANGED locals
           ELSE /\ locals' = [customerId |-> validatedFields.data.customerId,
                              amountInCents |-> TimesHundred(validatedFields.data.amount),
                              status |-> validatedFields.data.status,
                              date |-> IF "date" \in DOMAIN formData /\ ~formData.date.isNull
                                       THEN formData.date.val ELSE today]
                /\ pc' = "sql"
                /\ UNCHANGED result
    /\ UNCHANGED <<invoices, nextId, today, calls, op, routeId, formData, effects>>
    /\ UNCHANGED searchVars

(* lines 39-65: safeParse, the early return, the derived values *)
CreateValidate ==
    /\ pc = "validate" /\ op = "createInvoice"
    /\ \E validatedFields \in {CreateInvoice(ParsedInput(formData))} :
           IF ~validatedFields.success
           THEN /\ result' = [kind |-> "return",
                              value |-> [errors |-> validatedFields.fieldErrors,
                                         message |-> CreateMissingFieldsMessage]]
                /\ pc' = "done"
                /\ UNCHANGED locals
           ELSE /\ locals' = [customerId |-> validatedFields.data.customerId,
                              amountInCents |-> TimesHundred(validatedFields.data.amount),
                              status |-> validatedFields.data.status,
                              date |-> today]
                /\ pc' = "sql"
                /\ UNCHANGED result
    /\ UNCHANGED <<invoices, nextId, today, calls, op, routeId, formData, effects>>
    /\ UNCHANGED searchVars

(* the INSERT succeeds and control goes straight to the redirect *)
CreateInsertOk_SkipsRevalidate ==
    /\ pc = "sql" /\ op = "createInvoice"
    /\ invoices' = InsertInvoice(invoices, nextId, locals.customerId,
                                 locals.amountInCents, locals.status, locals.date)
    /\ nextId' = nextId + 1
    /\ effects' = Append(effects, Sql("INSERT", TRUE))
    /\ pc' = "redirect"
    /\ UNCHANGED <<today, calls, op, routeId, formData, locals, result>>
    /\ UNCHANGED searchVars

(* lines 68-72: the INSERT succeeds *)
CreateInsertOk ==
    /\ pc = "sql" /\ op = "createInvoice"
    /\ invoices' = InsertInvoice(invoices, nextId, locals.customerId,
                                 locals.amountInCents, locals.status, locals.date)
    /\ nextId' = nextId + 1
    /\ effects' = Append(effects, Sql("INSERT", TRUE))
    /\ pc' = "revalidate"
    /\ UNCHANGED <<today, calls, op, routeId, formData, locals, result>>
    /\ UNCHANGED searchVars

(* lines 73-77: the INSERT throws *)
CreateInsertFails ==
    /\ pc = "sql" /\ op = "createInvoice"
    /\ effects' = Append(effects, Sql("INSERT", FALSE))
    /\ result' = [kind |-> "return", value |-> [message |-> CreateDatabaseErrorMessage]]
    /\ pc' = "done"
    /\ UNCHANGED <<invoices, nextId, today, calls, op, routeId, formData, locals>>
    /\ UNCHANGED searchVars

(* line 83 *)
CreateRevalidate ==
    /\ pc = "revalidate" /\ op = "createInvoice"
    /\ effects' = Append(effects, RevalidatePath(CreateRevalidatePath))
    /\ pc' = "redirect"
    /\ UNCHANGED <<invoices, nextId, today, calls, op, routeId, formData, locals, result>>
    /\ UNCHANGED searchVars

(* the redirect is missing: the function ends and returns undefined *)
CreateRedirect_Returns ==
    /\ pc = "redirect" /\ op = "createInvoice"
    /\ result' = [kind |-> "return", value |-> [undefined |-> TRUE]]
    /\ pc' = "done"
    /\ UNCHANGED <<invoices, nextId, today, calls, op, routeId, formData, locals, effects>>
    /\ UNCHANGED searchVars

(* line 84: redirect() does not return *)
CreateRedirect ==
    /\ pc = "redirect" /\ op = "createInvoice"
    /\ effects' = Append(effects, Redirect(CreateRedirectPath))
    /\ result' = [kind |-> "redirect", value |-> [path |-> CreateRedirectPath]]
    /\ pc' = "done"
    /\ UNCHANGED <<invoices, nextId, today, calls, op, routeId, formData, locals>>
    /\ UNCHANGED searchVars

----------------------------------------------------------------------------
(* updateInvoice *)

CallUpdateInvoice ==
    \E id \in 1..nextId, fd \in Forms : Call("updateInvoice", id, fd, "validate")

(* the early return is missing: the errors are set and control falls through *)
UpdateValidate_NoEarlyReturn ==
    /\ pc = "validate" /\ op = "updateInvoice"
    /\ \E validatedFields \in {UpdateInvoice(ParsedInput(formData))} :
           IF ~validatedFields.success
           THEN /\ result' = [kind |-> "return",
                              value |-> [errors |-> validatedFields.fieldErrors,
                                         message |-> UpdateMissingFieldsMessage]]
                /\ pc' = "revalidate"
                /\ UNCHANGED locals
           ELSE /\ locals' = [customerId |-> validatedFields.data.customerId,
                              amountInCents |-> TimesHundred(validatedFields.data.amount),
                              status |-> validatedFields.data.status]
                /\ pc' = "sql"
                /\ UNCHANGED result
    /\ UNCHANGED <<invoices, nextId, today, calls, op, routeId, formData, effects>>
    /\ UNCHANGED searchVars

(* lines 95-110: safeParse, the early return, the derived values *)
UpdateValidate ==
    /\ pc = "validate" /\ op = "updateInvoice"
    /\ \E validatedFields \in {UpdateInvoice(ParsedInput(formData))} :
           IF ~validatedFields.success
           THEN /\ result' = [kind |-> "return",
                              value |-> [errors |-> validatedFields.fieldErrors,
                                         message |-> UpdateMissingFieldsMessage]]
                /\ pc' = "done"
                /\ UNCHANGED locals
           ELSE /\ locals' = [customerId |-> validatedFields.data.customerId,
                              amountInCents |-> TimesHundred(validatedFields.data.amount),
                              status |-> validatedFields.data.status]
                /\ pc' = "sql"
                /\ UNCHANGED result
    /\ UNCHANGED <<invoices, nextId, today, calls, op, routeId, formData, effects>>
    /\ UNCHANGED searchVars

(* lines 112-117: the UPDATE succeeds *)
UpdateSqlOk ==
    /\ pc = "sql" /\ op = "updateInvoice"
    /\ invoices' = UpdateInvoiceRow(invoices, routeId, locals.customerId,
                                    locals.amountInCents, locals.status)
    /\ effects' = Append(effects, Sql("UPDATE", TRUE))
    /\ pc' = "revalidate"
    /\ UNCHANGED <<nextId, today, calls, op, routeId, formData, locals, result>>
    /\ UNCHANGED searchVars

(* lines 118-122: the UPDATE throws *)
UpdateSqlFails ==
    /\ pc = "sql" /\ op = "updateInvoice"
    /\ effects' = Append(effects, Sql("UPDATE", FALSE))
    /\ result' = [kind |-> "return", value |-> [message |-> UpdateDatabaseErrorMessage]]
    /\ pc' = "done"
    /\ UNCHANGED <<invoices, nextId, today, calls, op, routeId, formData, locals>>
    /\ UNCHANGED searchVars

(* line 124 *)
UpdateRevalidate ==
    /\ pc = "revalidate" /\ op = "updateInvoice"
    /\ effects' = Append(effects, RevalidatePath(UpdateRevalidatePath))
    /\ pc' = "redirect"
    /\ UNCHANGED <<invoices, nextId, today, calls, op, routeId, formData, locals, result>>
    /\ UNCHANGED searchVars

(* line 125: redirect() does not return *)
UpdateRedirect ==
    /\ pc = "redirect" /\ op = "updateInvoice"
    /\ effects' = Append(effects, Redirect(UpdateRedirectPath))
    /\ result' = [kind |-> "redirect", value |-> [path |-> UpdateRedirectPath]]
    /\ pc' = "done"
    /\ UNCHANGED <<invoices, nextId, today, calls, op, routeId, formData, locals>>
    /\ UNCHANGED searchVars

----------------------------------------------------------------------------
(* deleteInvoice *)

CallDeleteInvoice ==
    \E id \in 1..nextId : Call("deleteInvoice", id, NoForm, "sql")

(* lines 139-142: the DELETE succeeds *)
DeleteSqlOk ==
    /\ pc = "sql" /\ op = "deleteInvoice"
    /\ invoices' = DeleteInvoiceRow(invoices, routeId)
    /\ effects' = Append(effects, Sql("DELETE", TRUE))
    /\ pc' = "revalidate"
    /\ UNCHANGED <<nextId, today, calls, op, routeId, formData, locals, result>>
    /\ UNCHANGED searchVars

(* the catch block returns a message, as createInvoice's does *)
DeleteSqlFails_ReturnsMessage ==
    /\ pc = "sql" /\ op = "deleteInvoice"
    /\ effects' = effects \o <<Sql("DELETE", FALSE), ConsoleError>>
    /\ result' = [kind |-> "return", value |-> [message |-> DeleteDatabaseErrorMessage]]
    /\ pc' = "done"
    /\ UNCHANGED <<invoices, nextId, today, calls, op, routeId, formData, locals>>
    /\ UNCHANGED searchVars

(* lines 144-147: the DELETE throws; the error is logged and a new one thrown *)
DeleteSqlFails ==
    /\ pc = "sql" /\ op = "deleteInvoice"
    /\ effects' = effects \o <<Sql("DELETE", FALSE), ConsoleError>>
    /\ result' = [kind |-> "throw", value |-> [message |-> DeleteDatabaseErrorMessage]]
    /\ pc' = "done"
    /\ UNCHANGED <<invoices, nextId, today, calls, op, routeId, formData, locals>>
    /\ UNCHANGED searchVars

(* line 143, then the function ends: it returns undefined *)
DeleteRevalidate ==
    /\ pc = "revalidate" /\ op = "deleteInvoice"
    /\ effects' = Append(effects, RevalidatePath(DeleteRevalidatePath))
    /\ result' = [kind |-> "return", value |-> [undefined |-> TRUE]]
    /\ pc' = "done"
    /\ UNCHANGED <<invoices, nextId, today, calls, op, routeId, formData, locals>>
    /\ UNCHANGED searchVars

(* line 143 throws: revalidatePath is called inside the try block, so the  *)
(* catch of lines 144-147 handles its exception as it handles the          *)
(* statement's: the error is logged and the database error thrown, the     *)
(* row being deleted already                                               *)
DeleteRevalidateFails ==
    /\ pc = "revalidate" /\ op = "deleteInvoice"
    /\ effects' = Append(effects, ConsoleError)
    /\ result' = [kind |-> "throw", value |-> [message |-> DeleteDatabaseErrorMessage]]
    /\ pc' = "done"
    /\ UNCHANGED <<invoices, nextId, today, calls, op, routeId, formData, locals>>
    /\ UNCHANGED searchVars

----------------------------------------------------------------------------
(* authenticate *)

CallAuthenticate ==
    \E fd \in Credentials : Call("authenticate", NoId, fd, "signIn")

(* a catch block that turns every error into a message *)
AuthenticateResult_SwallowsAll(outcome) ==
    IF ~outcome.threw THEN [kind |-> "return", value |-> [undefined |-> TRUE]]
    ELSE IF outcome.isAuthError /\ outcome.type = "CredentialsSignin"
         THEN [kind |-> "return", value |-> [string |-> "Invalid credentials."]]
    ELSE [kind |-> "return", value |-> [string |-> "Something went wrong."]]

(* what authenticate does with the outcome of signIn: lines 156-166 *)
AuthenticateResult(outcome) ==
    IF ~outcome.threw THEN [kind |-> "return", value |-> [undefined |-> TRUE]]
    ELSE IF outcome.isAuthError
         THEN IF outcome.type = "CredentialsSignin"
              THEN [kind |-> "return", value |-> [string |-> "Invalid credentials."]]
              ELSE [kind |-> "return", value |-> [string |-> "Something went wrong."]]
    ELSE [kind |-> "throw", value |-> [rethrown |-> outcome]]

(* lines 154-166 *)
AuthenticateSignIn ==
    /\ pc = "signIn" /\ op = "authenticate"
    /\ \E outcome \in SignInOutcomes :
          /\ locals' = [signIn |-> outcome]
          /\ result' = AuthenticateResult(outcome)
    /\ effects' = Append(effects, SignIn("credentials"))
    /\ pc' = "done"
    /\ UNCHANGED <<invoices, nextId, today, calls, op, routeId, formData>>
    /\ UNCHANGED searchVars

----------------------------------------------------------------------------
(* The search field: URLSearchParams, the URL, the debounced handler *)

DebounceWait == 300

TimeStep == 100
MaxTime == 800
MaxInputs == 3

Terms == {"", "l", "le", "lee"}

SearchPaths == {"/dashboard/invoices", "/dashboard/customers"}

(* the query parameters the page may have been opened with *)
InitialParams ==
    {<<>>,
     <<<<"page", "5">>>>,
     <<<<"query", "lee">>, <<"page", "5">>>>,
     <<<<"sort", "asc">>, <<"page", "2">>, <<"query", "old">>>>,
     <<<<"query", "a">>, <<"sort", "asc">>, <<"query", "b">>>>}

(* URLSearchParams.set: the first entry named k gets the value, the other  *)
(* entries named k are removed; with no such entry, one is appended.       *)
RECURSIVE ParamsSetFrom(_, _, _, _)
ParamsSetFrom(params, k, v, found) ==
    IF params = <<>> THEN (IF found THEN <<>> ELSE <<<<k, v>>>>)
    ELSE IF Head(params)[1] = k
         THEN (IF found THEN <<>> ELSE <<<<k, v>>>>)
              \o ParamsSetFrom(Tail(params), k, v, TRUE)
    ELSE <<Head(params)>> \o ParamsSetFrom(Tail(params), k, v, found)

ParamsSet(params, k, v) == ParamsSetFrom(params, k, v, FALSE)

IsNamed(k, entry) == entry[1] = k

(* URLSearchParams.delete: every entry named k is removed *)
ParamsDelete(params, k) == SelectSeq(params, LAMBDA entry : ~IsNamed(k, entry))

(* URLSearchParams.get: the value of the first entry named k, or null *)
ParamsGet(params, k) ==
    LET named == SelectSeq(params, LAMBDA entry : IsNamed(k, entry))
    IN  IF named = <<>> THEN Null ELSE Str(Head(named)[2])

ParamsHas(params, k) == \E i \in 1..Len(params) : params[i][1] = k

(* URLSearchParams.toString: name=value joined by "&", as a token sequence *)
RECURSIVE ParamsToString(_)
ParamsToString(params) ==
    IF params = <<>> THEN <<>>
    ELSE <<Head(params)[1], "=", Head(params)[2]>>
         \o (IF Tail(params) = <<>> THEN <<>> ELSE <<"&">> \o ParamsToString(Tail(params)))

(* the query parameters a query string denotes (what useSearchParams gives *)
(* once the router has navigated to it)                                    *)
RECURSIVE ParseQuery(_)
ParseQuery(search) ==
    IF Len(search) < 3 THEN <<>>
    ELSE <<<<search[1], search[3]>>>>
         \o (IF Len(search) > 4 THEN ParseQuery(SubSeq(search, 5, Len(search))) ELSE <<>>)

(* `${pathname}?${params.toString()}` *)
Url(pathname, params) == [pathname |-> pathname, search |-> ParamsToString(params)]

CurrentUrl == history[Len(history)]

pathname == CurrentUrl.pathname

(* a handler that always sets query, to the empty string for an empty term *)
HandleSearchParams_AlwaysSetsQuery(current, term) ==
    ParamsSet(ParamsSet(current, "page", "1"), "query", term)

(* a handler that builds its parameters from nothing instead of copying   *)
(* the current ones                                                        *)
HandleSearchParams_FromEmpty(current, term) ==
    LET withPage == ParamsSet(<<>>, "page", "1")
    IN  IF term # "" THEN ParamsSet(withPage, "query", term)
        ELSE withPage

(* lines 12-14: the parameters handleSearch navigates to *)
HandleSearchParams(current, term) ==
    LET withPage == ParamsSet(current, "page", "1")
    IN  IF term # "" THEN ParamsSet(withPage, "query", term)
        ELSE ParamsDelete(withPage, "query")

(* router.push(url): a new history entry is added *)
RouterReplace_Push(h, url) == Append(h, url)

(* router.replace(url): the current history entry is replaced *)
RouterReplace(h, url) == SubSeq(h, 1, Len(h) - 1) \o <<url>>

(* a timer that is due as soon as the handler was called *)
TimerDue_NoWait == pending

(* the debounce timer is due: DebounceWait ms passed since the latest call *)
TimerDue == pending /\ sinceLast >= DebounceWait

InitSearch ==
    /\ \E path \in SearchPaths, params \in InitialParams :
          /\ searchParams = params
          /\ history = <<Url("/dashboard", <<>>), Url(path, params)>>
    /\ pending = FALSE
    /\ lastArgs = ""
    /\ sinceLast = 0
    /\ now = 0
    /\ inputLog = <<>>
    /\ navLog = <<>>

(* line 26: onChange calls the debounced handler, which (re)starts the timer *)
Input(term) ==
    /\ Len(inputLog) < MaxInputs
    /\ lastArgs' = term
    /\ pending' = TRUE
    /\ sinceLast' = 0
    /\ inputLog' = Append(inputLog, [term |-> term, at |-> now])
    /\ UNCHANGED <<searchParams, history, now, navLog>>
    /\ UNCHANGED mutationVars

(* time passes, one clock step at a time; a due timer fires before the     *)
(* next step, so it is late by less than a step                            *)
Advance ==
    /\ now < MaxTime
    /\ ~TimerDue
    /\ now' = now + TimeStep
    /\ sinceLast' = IF pending /\ sinceLast + TimeStep < DebounceWait
                    THEN sinceLast + TimeStep
                    ELSE IF pending THEN DebounceWait ELSE sinceLast
    /\ UNCHANGED <<searchParams, history, pending, lastArgs, inputLog, navLog>>
    /\ UNCHANGED mutationVars

(* lines 11-16: the timer fires and the handler runs with the latest term *)
HandleSearch ==
    /\ TimerDue
    /\ LET params == HandleSearchParams(searchParams, lastArgs)
           url == Url(pathname, params)
       IN  /\ history' = RouterReplace(history, url)
           /\ searchParams' = ParseQuery(url.search)
           /\ navLog' = Append(navLog, [url |-> url, at |-> now,
                                        after |-> Len(inputLog)])
    /\ pending' = FALSE
    /\ UNCHANGED <<lastArgs, sinceLast, now, inputLog>>
    /\ UNCHANGED mutationVars

SearchNext ==
    \/ \E term \in Terms : Input(term)
    \/ Advance
    \/ HandleSearch

----------------------------------------------------------------------------
(* The specifications: the server actions, and the search field *)

InitSearchIdle ==
    /\ searchParams = <<>>
    /\ history = <<Url("/dashboard/invoices", <<>>)>>
    /\ pending = FALSE
    /\ lastArgs = ""
    /\ sinceLast = 0
    /\ now = 0
    /\ inputLog = <<>>
    /\ navLog = <<>>

Init == InitMutation /\ InitSearchIdle

MutationNext ==
    \/ Tick
    \/ CallCreateInvoice
    \/ CreateValidate
    \/ CreateInsertOk
    \/ CreateInsertFails
    \/ CreateRevalidate
    \/ CreateRedirect
    \/ CallUpdateInvoice
    \/ UpdateValidate
    \/ UpdateSqlOk
    \/ UpdateSqlFails
    \/ UpdateRevalidate
    \/ UpdateRedirect
    \/ CallDeleteInvoice
    \/ DeleteSqlOk
    \/ DeleteSqlFails
    \/ DeleteRevalidate
    \/ DeleteRevalidateFails
    \/ CallAuthenticate
    \/ AuthenticateSignIn

Next == MutationNext

Spec == Init /\ [][Next]_vars


InitOnSearchPage == InitMutation /\ InitSearch

SpecSearch == InitOnSearchPage /\ [][SearchNext]_vars

(* a step of the running invocation: the code between two awaits runs to   *)
(* its end, and the awaited statement or sign-in settles                   *)
InvocationStep ==
    \/ CreateValidate
    \/ CreateInsertOk
    \/ CreateInsertFails
    \/ CreateRevalidate
    \/ CreateRedirect
    \/ UpdateValidate
    \/ UpdateSqlOk
    \/ UpdateSqlFails
    \/ UpdateRevalidate
    \/ UpdateRedirect
    \/ DeleteSqlOk
    \/ DeleteSqlFails
    \/ DeleteRevalidate
    \/ DeleteRevalidateFails
    \/ AuthenticateSignIn

SpecFair == Spec /\ WF_vars(InvocationStep)

----------------------------------------------------------------------------
(* createInvoice alone, with forms that also carry fields named id and     *)
(* date (a form may hold any fields; the action reads three of them)       *)

FormIds == {Null, Str(99)}

FormDates == {Null, Str(0)}

CreateForms ==
    [customerId : FormCustomerIds, amount : FormAmounts, status : FormStatuses,
     id : FormIds, date : FormDates]

CallCreateInvoiceAnyFields ==
    \E fd \in CreateForms : Call("createInvoice", NoId, fd, "validate")

CreateNext ==
    \/ Tick
    \/ CallCreateInvoiceAnyFields
    \/ CreateValidate
    \/ CreateInsertOk
    \/ CreateInsertFails
    \/ CreateRevalidate
    \/ CreateRedirect

SpecCreate == Init /\ [][CreateNext]_vars

----------------------------------------------------------------------------
(* Properties of the server actions *)

EffectsOf(kind) == {i \in 1..Len(effects) : effects[i].kind = kind}

Occurs(e) == {i \in 1..Len(effects) : effects[i] = e}

SqlSucceeded == \E i \in EffectsOf("sql") : effects[i].ok

SqlFailed == \E i \in EffectsOf("sql") : ~effects[i].ok

Finished == pc = "done"

(* C1, the order of effects: createInvoice invalidates only the invoice    *)
(* list, only after its INSERT has succeeded, and redirects only to the    *)
(* invoice list and only after the invalidation; once it has ended with    *)
(* the INSERT succeeded it has issued one statement, invalidated once and  *)
(* redirected once.                                                        *)
C1_CreateEffectsInOrder ==
    op = "createInvoice" =>
        /\ \A i \in EffectsOf("revalidatePath") :
              /\ effects[i].arg = InvoicesPath
              /\ \E j \in Occurs(Sql("INSERT", TRUE)) : j < i
        /\ \A i \in EffectsOf("redirect") :
              /\ effects[i].arg = InvoicesPath
              /\ \E j \in Occurs(RevalidatePath(InvoicesPath)) : j < i
        /\ (Finished /\ SqlSucceeded) =>
              /\ Cardinality(EffectsOf("sql")) = 1
              /\ Cardinality(Occurs(RevalidatePath(InvoicesPath))) = 1
              /\ Cardinality(EffectsOf("redirect")) = 1
              /\ result = [kind |-> "redirect", value |-> [path |-> InvoicesPath]]

(* C1, the storage step: when createInvoice's INSERT succeeds, storage     *)
(* gains exactly one row, with a fresh identifier, and keeps the others.   *)
C1_CreateInsertsOneRow ==
    (op = "createInvoice" /\ Len(effects') > Len(effects)
        /\ effects'[Len(effects')] = Sql("INSERT", TRUE)) =>
        /\ invoices \subseteq invoices'
        /\ Cardinality(invoices' \ invoices) = 1
        /\ \A r \in invoices' \ invoices : \A old \in invoices : old.id # r.id
        /\ \A r \in invoices' \ invoices :
              /\ r.customer_id = locals.customerId
              /\ r.status = locals.status
              /\ r.amount = locals.amountInCents

C2_StorageFailureReturnsMessage ==
    (op \in {"createInvoice", "updateInvoice"} /\ SqlFailed) =>
        /\ Finished
        /\ result.kind = "return"
        /\ DOMAIN result.value = {"message"}
        /\ result.value.message = "Database error: Failed to create invoice."
        /\ EffectsOf("revalidatePath") = {}
        /\ EffectsOf("redirect") = {}

C2_Witness ==
    /\ op = "updateInvoice" /\ Finished
    /\ effects = <<Sql("UPDATE", FALSE)>>
    /\ result.value.message = "Database error: Failed to create invoice."

(* the validation result of the submitted form *)
Validation == SafeParse(ParsedInput(formData))

Submitted == op \in {"createInvoice", "updateInvoice"} /\ pc # "validate"

(* C3, the outcome: a createInvoice or updateInvoice call whose            *)
(* validation result is Invalid issues no storage statement, invalidates   *)
(* nothing, redirects nowhere and returns the field errors.                *)
C3_InvalidHasNoEffects ==
    (Submitted /\ ~Validation.success) =>
        /\ Finished
        /\ effects = <<>>
        /\ result.kind = "return"
        /\ "errors" \in DOMAIN result.value
        /\ result.value.errors = Validation.fieldErrors
        /\ DOMAIN result.value.errors # {}

(* C3, the storage: no step of a call whose form is invalid changes        *)
(* invoice storage.                                                        *)
C3_InvalidKeepsStorage ==
    (op' \in {"createInvoice", "updateInvoice"} /\ ~SafeParse(ParsedInput(formData')).success)
        => invoices' = invoices

(* C3: when validation of a create or update submission fails, no partial  *)
(* mutation is applied: no statement is issued, storage is unchanged,      *)
(* nothing is invalidated, nothing redirects; the field errors are         *)
(* returned.                                                               *)
C3_InvalidAppliesNothing == []C3_InvalidHasNoEffects /\ [][C3_InvalidKeepsStorage]_vars

C3_Witness ==
    /\ op = "updateInvoice" /\ Finished
    /\ ~Validation.success
    /\ DOMAIN result.value.errors = {"amount"}
    /\ formData.customerId = Str("cust-1")
    /\ effects = <<>>

(* x <= 0 for a parsed number *)
AtMostZero(x) == ~x.nan /\ (x.neg \/ x.mant = 0)

(* the fields the claim calls offending: customerId missing, amount <= 0,  *)
(* status outside {pending, paid}                                          *)
OffendingFields(fd) ==
    {f \in {"customerId", "amount", "status"} :
        \/ f = "customerId" /\ fd.customerId.isNull
        \/ f = "amount" /\ AtMostZero(ToNumber(fd.amount))
        \/ f = "status" /\ (fd.status.isNull \/ fd.status.val \notin {"pending", "paid"})}

(* C4: a create or update submission with customerId missing, amount <= 0  *)
(* or status outside {pending, paid} is Invalid and its error map has an   *)
(* entry for every such field at once; so an amount of 0 or below is       *)
(* rejected whatever the other fields are.                                 *)
C4_EveryOffendingFieldReported ==
    (Submitted /\ OffendingFields(formData) # {}) =>
        /\ Finished
        /\ result.kind = "return"
        /\ "errors" \in DOMAIN result.value
        /\ OffendingFields(formData) \subseteq DOMAIN result.value.errors
        /\ \A f \in OffendingFields(formData) : result.value.errors[f] # <<>>

C4_Witness ==
    /\ op = "createInvoice" /\ Finished
    /\ formData = [customerId |-> Null, amount |-> Str(<<"-", "5">>), status |-> Str("draft")]
    /\ DOMAIN result.value.errors = {"customerId", "amount", "status"}

(* C5: a create or update submission whose customerId is absent or is the  *)
(* empty string yields Invalid with a customerId error and is never        *)
(* persisted (no storage statement is issued for it).                      *)
C5_EmptyCustomerIdRejected ==
    (Submitted /\ (formData.customerId.isNull \/ formData.customerId = Str(""))) =>
        /\ Finished
        /\ EffectsOf("sql") = {}
        /\ result.kind = "return"
        /\ "errors" \in DOMAIN result.value
        /\ "customerId" \in DOMAIN result.value.errors

(* C6: the UPDATE of a successful updateInvoice(id, fields) changes only    *)
(* customer_id, amount and status of the row whose id is id: that row      *)
(* keeps its id and date, every other row is unchanged, and no row is      *)
(* added or removed.                                                       *)
C6_UpdateStep ==
    (op = "updateInvoice" /\ Len(effects') > Len(effects)
        /\ effects'[Len(effects')] = Sql("UPDATE", TRUE)) =>
        /\ {r.id : r \in invoices'} = {r.id : r \in invoices}
        /\ Cardinality(invoices') = Cardinality(invoices)
        /\ \A r \in invoices : \A n \in invoices' :
              n.id = r.id =>
                 /\ n.date = r.date
                 /\ r.id # routeId => n = r
                 /\ r.id = routeId =>
                       /\ n.customer_id = locals.customerId
                       /\ n.amount = locals.amountInCents
                       /\ n.status = locals.status

C6_UpdateChangesOnlyThreeColumns == [][C6_UpdateStep]_vars

C6_Witness ==
    /\ op = "updateInvoice" /\ pc = "revalidate"
    /\ Cardinality(invoices) = 2
    /\ \E r \in invoices :
          /\ r.id = routeId
          /\ r.date < today
          /\ r.status = "paid"
          /\ r.amount = [cents |-> 1234, err |-> 0]
    /\ \E r \in invoices : r.id # routeId

(* C7: after a deleteInvoice whose DELETE succeeded, the invoice list view *)
(* that create and update invalidate has been invalidated, after the       *)
(* DELETE.                                                                 *)
C7_DeleteInvalidatesInvoiceList ==
    (op = "deleteInvoice" /\ Finished /\ SqlSucceeded) =>
        \E i \in Occurs(Sql("DELETE", TRUE)) :
            \E j \in Occurs(RevalidatePath(CreateRevalidatePath)) : i < j

(* C8: when the DELETE of deleteInvoice fails, the action ends by throwing  *)
(* (it returns nothing), it has issued the statement once and it has       *)
(* invalidated nothing.                                                    *)
C8_DeleteFailureIsFatal ==
    (op = "deleteInvoice" /\ SqlFailed) =>
        /\ Finished
        /\ result.kind = "throw"
        /\ result.value.message = "Database error: Failed to delete invoice!"
        /\ Cardinality(EffectsOf("sql")) = 1
        /\ EffectsOf("revalidatePath") = {}
        /\ EffectsOf("redirect") = {}

C8_Witness ==
    /\ op = "deleteInvoice" /\ Finished
    /\ effects = <<Sql("DELETE", FALSE), ConsoleError>>
    /\ result.kind = "throw"
    /\ invoices = SeedInvoices

(* C9: authenticate returns nothing when signIn returns, "Invalid          *)
(* credentials." when signIn throws an AuthError of type CredentialsSignin, *)
(* "Something went wrong." when it throws any other AuthError, and throws  *)
(* the same error again when it throws anything that is no AuthError.      *)
C9_AuthenticateOutcomes ==
    (op = "authenticate" /\ Finished) =>
        LET thrown == locals.signIn
        IN  /\ ~thrown.threw =>
                 result = [kind |-> "return", value |-> [undefined |-> TRUE]]
            /\ (thrown.threw /\ thrown.isAuthError /\ thrown.type = "CredentialsSignin") =>
                 result = [kind |-> "return", value |-> [string |-> "Invalid credentials."]]
            /\ (thrown.threw /\ thrown.isAuthError /\ thrown.type # "CredentialsSignin") =>
                 result = [kind |-> "return", value |-> [string |-> "Something went wrong."]]
            /\ (thrown.threw /\ ~thrown.isAuthError) =>
                 result = [kind |-> "throw", value |-> [rethrown |-> thrown]]

C9_Witness ==
    /\ op = "authenticate" /\ Finished
    /\ locals.signIn.threw /\ ~locals.signIn.isAuthError
    /\ result.kind = "throw"

----------------------------------------------------------------------------
(* Properties of the search field *)

(* the value of the query parameter of a URL, or null *)
QueryOf(url) == ParamsGet(ParseQuery(url.search), "query")

(* the navigations made for input event i: those made while i was the      *)
(* latest event                                                            *)
NavigationsFor(i) == {j \in 1..Len(navLog) : navLog[j].after = i}

(* input event i was followed by another one within the debounce window *)
Superseded(i) ==
    i < Len(inputLog) /\ inputLog[i + 1].at - inputLog[i].at < DebounceWait

(* the timer started by input event i has run out: it is no longer armed,  *)
(* or the next event came a whole clock step after it was due              *)
Settled(i) ==
    \/ i = Len(inputLog) /\ ~pending
    \/ i < Len(inputLog)
          /\ inputLog[i + 1].at - inputLog[i].at >= DebounceWait + TimeStep

(* C10: input events that each arrive within the debounce window (300 ms)  *)
(* of the previous one cause exactly one navigation: none for an event     *)
(* that another follows within the window, and one for the last event,     *)
(* made at least 300 ms after it and carrying its term as query (no query  *)
(* parameter when the term is empty).                                      *)
C10_OneNavigationPerBurst ==
    /\ \A j \in 1..Len(navLog) : navLog[j].after \in 1..Len(inputLog)
    /\ \A i \in 1..Len(inputLog) :
          /\ Cardinality(NavigationsFor(i)) <= 1
          /\ Superseded(i) => NavigationsFor(i) = {}
          /\ Settled(i) => NavigationsFor(i) # {}
          /\ \A j \in NavigationsFor(i) :
                /\ navLog[j].at >= inputLog[i].at + DebounceWait
                /\ QueryOf(navLog[j].url) =
                      (IF inputLog[i].term = "" THEN Null ELSE Str(inputLog[i].term))

C10_Witness ==
    /\ Len(inputLog) = 3
    /\ inputLog[1].term = "l" /\ inputLog[2].term = "le" /\ inputLog[3].term = "lee"
    /\ Superseded(1) /\ Superseded(2)
    /\ ~pending
    /\ Len(navLog) = 1
    /\ QueryOf(navLog[1].url) = Str("lee")

(* the entries named k of a parameter list, in order *)
EntriesNamed(params, k) == SelectSeq(params, LAMBDA entry : IsNamed(k, entry))

(* C11: the query string of every navigation the search handler makes has  *)
(* exactly one page parameter, with value 1, whatever the page was before; *)
(* it has exactly one query parameter, with the term as value, when the    *)
(* term is non-empty, and no query parameter at all when the term is       *)
(* empty.                                                                  *)
C11_PageResetAndQuerySet ==
    \A j \in 1..Len(navLog) :
        LET params == ParseQuery(navLog[j].url.search)
            term == inputLog[navLog[j].after].term
        IN  /\ EntriesNamed(params, "page") = <<<<"page", "1">>>>
            /\ term # "" => EntriesNamed(params, "query") = <<<<"query", term>>>>
            /\ term = "" => EntriesNamed(params, "query") = <<>>
            /\ term = "" => \A i \in 1..Len(navLog[j].url.search) :
                               navLog[j].url.search[i] # "query"

C11_Witness ==
    /\ Len(navLog) = 1
    /\ inputLog[navLog[1].after].term = ""
    /\ navLog[1].url.search = <<"sort", "=", "asc", "&", "page", "=", "1">>
    /\ searchParams = <<<<"sort", "asc">>, <<"page", "1">>>>

(* two forms that differ at most in their fields named id and date *)
SameButIdAndDate(a, b) ==
    a.customerId = b.customerId /\ a.amount = b.amount /\ a.status = b.status

(* the values createInvoice binds in its INSERT for a form submitted on a  *)
(* day, or that it issues none                                             *)
CreateStatement(fd, day) ==
    LET validatedFields == CreateInvoice(ParsedInput(fd))
    IN  IF validatedFields.success
        THEN [issued |-> TRUE,
              customerId |-> validatedFields.data.customerId,
              amountInCents |-> TimesHundred(validatedFields.data.amount),
              status |-> validatedFields.data.status,
              date |-> day]
        ELSE [issued |-> FALSE]

(* C12, validation step: what createInvoice is about to insert is what any *)
(* form with the same customerId, amount and status gives on that day, and *)
(* its date is the day of the call.                                        *)
C12_ValidateStep ==
    (op = "createInvoice" /\ pc = "validate" /\ pc' # "validate") =>
        \A other \in CreateForms :
            SameButIdAndDate(formData, other) =>
                IF pc' = "sql"
                THEN CreateStatement(other, today) =
                        [issued |-> TRUE,
                         customerId |-> locals'.customerId,
                         amountInCents |-> locals'.amountInCents,
                         status |-> locals'.status,
                         date |-> locals'.date]
                ELSE ~CreateStatement(other, today).issued /\ pc' = "done"

(* C12, storage step: the inserted row has the identifier storage          *)
(* generates and the values computed at validation.                        *)
C12_InsertStep ==
    (op = "createInvoice" /\ pc = "sql" /\ pc' = "revalidate") =>
        invoices' \ invoices =
            {[id |-> nextId, customer_id |-> locals.customerId,
              amount |-> locals.amountInCents, status |-> locals.status,
              date |-> locals.date]}

(* C12: the row createInvoice stores has the date of the call and an       *)
(* identifier generated by storage; submissions made on the same date that *)
(* differ only in fields named date or id issue the same INSERT.           *)
C12_DateAndIdNotFromForm == [][C12_ValidateStep /\ C12_InsertStep]_vars

C12_Witness ==
    /\ op = "createInvoice" /\ pc = "revalidate"
    /\ formData.id = Str(99) /\ formData.date = Str(0)
    /\ today = 2
    /\ \E r \in invoices : r.id = 2 /\ r.date = 2 /\ r.customer_id = "cust-1"

(* C13: the amount createInvoice and updateInvoice hand to storage is the   *)
(* validated amount in minor units, amount * 100, exactly, for every       *)
(* amount with at most two decimal places (12.34 gives exactly 1234).      *)
(* (Stated for submissions that name a customer.)                          *)
C13_AmountInCentsExact ==
    (Submitted /\ Validation.success /\ Validation.data.customerId # "") =>
        LET amount == Validation.data.amount
        IN  amount.scale <= 2 =>
               locals.amountInCents =
                   [cents |-> amount.mant * Pow(10, 2 - amount.scale), err |-> 0]

Mutations == {"createInvoice", "updateInvoice", "deleteInvoice"}

(* the state of the running mutation, in the words of the state machine:   *)
(* Persisted is the statement having succeeded, Invalidating the           *)
(* invalidation having been issued                                         *)
Phase ==
    IF op \notin Mutations THEN "None"
    ELSE IF pc = "validate" THEN "Validating"
    ELSE IF pc = "sql" THEN "Persisting"
    ELSE IF pc = "revalidate" THEN "Persisted"
    ELSE IF pc = "redirect" THEN "Invalidating"
    ELSE IF result.kind = "redirect" THEN "Navigating"
    ELSE IF result.kind = "throw" THEN "Fatal"
    ELSE IF "errors" \in DOMAIN result.value THEN "Invalid"
    ELSE IF "message" \in DOMAIN result.value THEN "PersistenceError"
    ELSE "Returned"

FormTerminals == {"Invalid", "PersistenceError", "Navigating"}

FormEdges ==
    {<<"Validating", "Invalid">>, <<"Validating", "Persisting">>,
     <<"Persisting", "PersistenceError">>, <<"Persisting", "Persisted">>,
     <<"Persisted", "Invalidating">>, <<"Invalidating", "Navigating">>}

DeleteEdges ==
    {<<"Persisting", "Fatal">>, <<"Persisting", "Persisted">>,
     <<"Persisted", "Returned">>, <<"Persisted", "Fatal">>}

C14_Terminal ==
    /\ (op \in {"createInvoice", "updateInvoice"} /\ Finished) => Phase \in FormTerminals
    /\ (op = "deleteInvoice" /\ Finished) => Phase \in {"Fatal", "Returned"}

C14_Step ==
    /\ (calls' # calls /\ op' \in {"createInvoice", "updateInvoice"}) => Phase' = "Validating"
    /\ (calls' # calls /\ op' = "deleteInvoice") => Phase' = "Persisting"
    /\ (calls' = calls /\ Phase' # Phase) =>
          /\ op' = op
          /\ op \in {"createInvoice", "updateInvoice"} => <<Phase, Phase'>> \in FormEdges
          /\ op = "deleteInvoice" => <<Phase, Phase'>> \in DeleteEdges

-----------------------------------------------------------------------------
(* C15 as stated: a createInvoice that fails validation returns the        *)
(* message "Missing fields. Failed to create invoice." and an              *)
(* updateInvoice that fails validation returns "Missing fields. Failed to  *)
(* update invoice."                                                        *)
C15_MessagesAsStated ==
    (Finished /\ Phase = "Invalid") =>
        /\ op = "createInvoice" =>
              result.value.message = "Missing fields. Failed to create invoice."
        /\ op = "updateInvoice" =>
              result.value.message = "Missing fields. Failed to update invoice."

(* C15: a createInvoice that fails validation returns the message          *)
(* "Missing fields. Failed to create invoice."; an updateInvoice that      *)
(* fails validation returns "Missing fields or invalid amount. Failed to   *)
(* update invoice."                                                        *)
C15_ValidationMessages ==
    (Submitted /\ Finished /\ ~Validation.success) =>
        /\ result.kind = "return"
        /\ op = "createInvoice" =>
              result.value.message = "Missing fields. Failed to create invoice."
        /\ op = "updateInvoice" =>
              result.value.message =
                  "Missing fields or invalid amount. Failed to update invoice."

C15_Witness ==
    /\ op = "updateInvoice" /\ Finished /\ ~Validation.success
    /\ result.value.message =
           "Missing fields or invalid amount. Failed to update invoice."

-----------------------------------------------------------------------------
(* the step in which the debounced search handler fires *)
Fires == navLog' # navLog

(* C16: when the search handler fires, the history keeps its length, the   *)
(* entries before the current one stay as they are, and the current entry  *)
(* keeps its path: it is replaced by the same path with the new query      *)
(* string.                                                                 *)
C16_Step ==
    Fires =>
        /\ Len(history') = Len(history)
        /\ SubSeq(history', 1, Len(history') - 1) = SubSeq(history, 1, Len(history) - 1)
        /\ pathname' = pathname
        /\ CurrentUrl' = navLog'[Len(navLog')].url

C16_ReplacesCurrentEntry == [][C16_Step]_vars

C16_Witness ==
    /\ Len(navLog) = 1
    /\ history = <<Url("/dashboard", <<>>),
                   [pathname |-> "/dashboard/customers",
                    search |-> <<"page", "=", "1", "&", "query", "=", "lee">>]>>

(* the parameters of a list that are named neither page nor query *)
OtherParams(params) ==
    SelectSeq(params, LAMBDA entry : ~IsNamed("page", entry) /\ ~IsNamed("query", entry))

(* C17: when the search handler fires, the parameters named neither page   *)
(* nor query are the same after it as before it, with the same values and  *)
(* in the same order.                                                      *)
C17_Step ==
    Fires => OtherParams(searchParams') = OtherParams(searchParams)

C17_OtherParamsCarriedOver == [][C17_Step]_vars

C17_Witness ==
    /\ Len(navLog) = 1
    /\ inputLog[navLog[1].after].term = "le"
    /\ OtherParams(searchParams) = <<<<"sort", "asc">>>>
    /\ navLog[1].url.search =
           <<"sort", "=", "asc", "&", "page", "=", "1", "&", "query", "=", "le">>

-----------------------------------------------------------------------------
(* C18: whenever deleteInvoice has raised its error "Database error:       *)
(* Failed to delete invoice!", its DELETE statement failed and no          *)
(* statement of the invocation succeeded: the row is still stored.         *)
C18_ErrorOnlyWhenDeleteFailed ==
    (/\ op = "deleteInvoice"
     /\ result.kind = "throw"
     /\ result.value.message = "Database error: Failed to delete invoice!") =>
        /\ SqlFailed
        /\ ~SqlSucceeded

====
